---- MODULE Spec2Model ----
(***************************************************************************)
(* Model of EBookSummaryParser (raw_summary_to_pdf_claude.py): the title   *)
(* extractor, the line classifier / block emitter of process_content and   *)
(* the inline bold transform.  Text is a sequence of one-character         *)
(* strings; a block is a record carrying the ReportLab style it is built   *)
(* with, the layout-block kind of the statement that emits it, and its     *)
(* text (a Spacer carries its height).                                     *)
(***************************************************************************)
EXTENDS Naturals, Sequences, FiniteSets

VARIABLES text, now, pc, lines, i, story, current_paragraph, in_bullet_list,
          bold, instance, calls, frames, batch

\* One call of process_content: its argument, its clock and its locals.
parse == <<text, now, pc, lines, i, story, current_paragraph, in_bullet_list>>

\* A call of _process_bold_text; an EBookSummaryParser shared by several calls
\* of process_content and their frames; a run of process_folder.
others == <<bold, instance, calls, frames, batch>>

vars == <<parse, others>>

\* The value of a variable of a part of the program that is not running.
Idle == <<>>

\* ------------------------------------------------------------------ bounds

\* Largest number of lines of an input text.
MaxLines == 3

\* ------------------------------------------------------- character strings

NL == "\n"
Hash == <<"#">>
Sp == <<" ">>
Star == <<"*">>
Dash == <<"-">>
Gt == <<">">>
DQ == <<"\"">>
Colon == <<":">>

BOOK_SUMMARY == <<"B", "O", "O", "K", " ", "S", "U", "M", "M", "A", "R", "Y">>

\* '# BOOK SUMMARY', the literal of lines 168 and 205.
TITLE_LINE == Hash \o Sp \o BOOK_SUMMARY

\* The literal part of the pattern r'# BOOK SUMMARY: (.+)'.
TITLE_PATTERN_PREFIX == TITLE_LINE \o Colon \o Sp

FALLBACK_TITLE == <<"e", "B", "o", "o", "k", " ", "S", "u", "m", "m", "a", "r", "y">>

BOLD_OPEN == <<"<", "b", ">">>
BOLD_CLOSE == <<"<", "/", "b", ">">>
\* The one-character string U+2022 (the bullet sign) is written "u2022".
BULLET_PREFIX == <<"u2022", " ">>
GENERATED_ON == <<"G", "e", "n", "e", "r", "a", "t", "e", "d", " ", "o", "n", " ">>

\* ------------------------------------------------------------ str methods

\* Characters str.strip() removes.
IsSpace(c) == c \in {" ", "\t", "\r", "\n"}

\* s[k:] with k counted from 0, as in Python.
Slice(s, k) == IF k >= Len(s) THEN <<>> ELSE SubSeq(s, k + 1, Len(s))

RECURSIVE LStrip(_)
LStrip(s) ==
    IF s = <<>> THEN <<>>
    ELSE IF IsSpace(Head(s)) THEN LStrip(Tail(s)) ELSE s

RECURSIVE RStrip(_)
RStrip(s) ==
    IF s = <<>> THEN <<>>
    ELSE IF IsSpace(s[Len(s)]) THEN RStrip(SubSeq(s, 1, Len(s) - 1)) ELSE s

\* str.strip()
Strip(s) == RStrip(LStrip(s))

\* str.startswith(p)
StartsWith(s, p) == Len(s) >= Len(p) /\ SubSeq(s, 1, Len(p)) = p

\* str.endswith(p)
EndsWith(s, p) == Len(s) >= Len(p) /\ SubSeq(s, Len(s) - Len(p) + 1, Len(s)) = p

\* Whether p occurs in s at (1-based) position k.
OccursAt(s, p, k) == k + Len(p) - 1 <= Len(s) /\ SubSeq(s, k, k + Len(p) - 1) = p

\* p in s
Contains(s, p) == \E k \in 1..(Len(s) + 1) : OccursAt(s, p, k)

\* str.split('\n'): always at least one line.
RECURSIVE SplitLines(_)
SplitLines(s) ==
    IF \A k \in 1..Len(s) : s[k] # NL THEN <<s>>
    ELSE LET k == CHOOSE j \in 1..Len(s) : s[j] = NL /\ \A m \in 1..(j - 1) : s[m] # NL
         IN  <<SubSeq(s, 1, k - 1)>> \o SplitLines(SubSeq(s, k + 1, Len(s)))

\* ' '.join(frags)
RECURSIVE JoinSpace(_)
JoinSpace(frags) ==
    IF frags = <<>> THEN <<>>
    ELSE IF Len(frags) = 1 THEN frags[1]
    ELSE frags[1] \o Sp \o JoinSpace(Tail(frags))

\* --------------------------------------------------------- _process_bold_text

\* Least position j >= k at which '**' occurs in s, or 0.
NextStars(s, k) ==
    LET hits == {j \in k..Len(s) : OccursAt(s, Star \o Star, j)}
    IN  IF hits = {} THEN 0 ELSE CHOOSE j \in hits : \A m \in hits : j <= m

\* re.sub(r'\*\*(.*?)\*\*', r'<b>\1</b>', s) scanning from position k: the
\* leftmost '**', with the nearest '**' after it (the span may be empty).
RECURSIVE BoldFrom(_, _)
BoldFrom(s, k) ==
    IF k > Len(s) THEN <<>>
    ELSE LET close == IF OccursAt(s, Star \o Star, k) THEN NextStars(s, k + 2) ELSE 0
         IN  IF close # 0
             THEN BOLD_OPEN \o SubSeq(s, k + 2, close - 1) \o BOLD_CLOSE
                  \o BoldFrom(s, close + 2)
             ELSE <<s[k]>> \o BoldFrom(s, k + 1)

process_bold_text(s) == BoldFrom(s, 1)

\* -------------------------------------------------------------- extract_title

\* re.search(r'# BOOK SUMMARY: (.+)', line): the positions where the pattern
\* matches, i.e. the literal followed by at least one character.
TitleMatches(line) ==
    {k \in 1..Len(line) : /\ OccursAt(line, TITLE_PATTERN_PREFIX, k)
                          /\ k + Len(TITLE_PATTERN_PREFIX) <= Len(line)}

\* title_match.group(1) of the leftmost match: greedy (.+) runs to the line end.
TitleGroup(line) ==
    LET k == CHOOSE j \in TitleMatches(line) : \A m \in TitleMatches(line) : j <= m
    IN  SubSeq(line, k + Len(TITLE_PATTERN_PREFIX), Len(line))

\* The for loop of extract_title from line k on.
RECURSIVE TitleFrom(_, _)
TitleFrom(ls, k) ==
    IF k > Len(ls) THEN FALLBACK_TITLE
    ELSE LET line == Strip(ls[k])
         IN  IF StartsWith(line, Hash \o Sp) /\ Contains(line, BOOK_SUMMARY)
             THEN IF TitleMatches(line) # {}
                  THEN TitleGroup(line)
                  ELSE TitleFrom(ls, k + 1)
             ELSE IF StartsWith(line, Hash \o Sp) /\ line # TITLE_LINE
                  THEN Strip(Slice(line, 2))
                  ELSE TitleFrom(ls, k + 1)

extract_title(t) == TitleFrom(SplitLines(t), 1)

\* --------------------------------------------------------------------- blocks

\* Paragraph(text, self.styles[style]); kind names the layout block the
\* emitting statement produces.
Para(kind, style, t) == [kind |-> kind, style |-> style, text |-> t]

\* Spacer(1, h)
Spacer(h) == [kind |-> "Spacer", height |-> h]

TITLE_SPACE == 20
DATE_SPACE == 30
PARAGRAPH_SPACE == 6

\* datetime.now().strftime('%B %d, %Y')
MonthName(m) ==
    IF m = 1 THEN <<"J", "a", "n", "u", "a", "r", "y">>
    ELSE <<"N", "o", "v", "e", "m", "b", "e", "r">>

Digit(n) == <<"0", "1", "2", "3", "4", "5", "6", "7", "8", "9">>[n + 1]

Strftime(d) ==
    MonthName(d.month) \o Sp \o <<Digit(d.day \div 10), Digit(d.day % 10)>>
    \o <<",", " ">>
    \o <<Digit(d.year \div 1000), Digit((d.year \div 100) % 10),
          Digit((d.year \div 10) % 10), Digit(d.year % 10)>>

\* The four blocks emitted before the line loop.
Preamble(t, d) ==
    << Para("Title", "Title", extract_title(t)),
       Spacer(TITLE_SPACE),
       Para("GeneratedDate", "Body", GENERATED_ON \o Strftime(d)),
       Spacer(DATE_SPACE) >>

Flush_FirstFragment(cp) == IF cp # <<>> THEN <<Para("Paragraph", "Body", cp[1])>> ELSE <<>>

\* if current_paragraph: story.append(Paragraph(' '.join(current_paragraph), Body))
Flush(cp) == IF cp # <<>> THEN <<Para("Paragraph", "Body", JoinSpace(cp))>> ELSE <<>>

BlankBlocks_AlwaysSpacer(cp) ==
    (IF cp # <<>> THEN <<Para("Paragraph", "Body", JoinSpace(cp))>> ELSE <<>>)
    \o <<Spacer(PARAGRAPH_SPACE)>>

\* The blank-line branch: the Spacer is appended inside `if current_paragraph`.
BlankBlocks(cp) == IF cp # <<>> THEN Flush(cp) \o <<Spacer(PARAGRAPH_SPACE)>> ELSE <<>>

IsTitleLine_Exact(line) == line = TITLE_LINE

\* line.startswith('# BOOK SUMMARY')
IsTitleLine(line) == StartsWith(line, TITLE_LINE)

Heading1Block_TitleStyle(line) == Para("Title", "Title", Strip(Slice(line, 1)))

Heading3Block(line) == Para("Heading3", "Heading3", Strip(Slice(line, 3)))
Heading2Block(line) == Para("Heading2", "Heading2", Strip(Slice(line, 2)))
Heading1Block(line) == Para("Heading1", "Heading1", Strip(Slice(line, 1)))

IsBullet(line) == StartsWith(line, Star) \/ StartsWith(line, Dash)

RECURSIVE LStripMarkers(_)
LStripMarkers(s) ==
    IF s # <<>> /\ Head(s) \in {"*", "-"} THEN LStripMarkers(Tail(s)) ELSE s

BulletBlock_LStripMarkers(line) ==
    Para("Bullet", "Bullet", BULLET_PREFIX \o process_bold_text(Strip(LStripMarkers(line))))

BulletBlock(line) ==
    Para("Bullet", "Bullet", BULLET_PREFIX \o process_bold_text(Strip(Slice(line, 1))))

\* quote_text after the optional removal of the outer quotes.
QuoteText(line) ==
    LET quote_text == Strip(Slice(line, 1))
    IN  IF StartsWith(quote_text, DQ) /\ EndsWith(quote_text, DQ)
        THEN SubSeq(quote_text, 2, Len(quote_text) - 1)
        ELSE quote_text

QuoteBlock(line) == Para("Quote", "Quote", DQ \o QuoteText(line) \o DQ)

Classify_ShortestFirst(line) ==
    IF line = <<>> THEN "blank"
    ELSE IF IsTitleLine(line) THEN "skip"
    ELSE IF StartsWith(line, Hash \o Hash) THEN "h2"
    ELSE IF StartsWith(line, Hash \o Hash \o Hash) THEN "h3"
    ELSE IF StartsWith(line, Hash) THEN "h1"
    ELSE IF IsBullet(line) THEN "bullet"
    ELSE IF StartsWith(line, Gt) THEN "quote"
    ELSE "text"

\* The branch of the if/elif chain of the loop body that a stripped line takes.
Classify(line) ==
    IF line = <<>> THEN "blank"
    ELSE IF IsTitleLine(line) THEN "skip"
    ELSE IF StartsWith(line, Hash \o Hash \o Hash) THEN "h3"
    ELSE IF StartsWith(line, Hash \o Hash) THEN "h2"
    ELSE IF StartsWith(line, Hash) THEN "h1"
    ELSE IF IsBullet(line) THEN "bullet"
    ELSE IF StartsWith(line, Gt) THEN "quote"
    ELSE "text"

\* --------------------------------------------------------------------- inputs

Word(c) == <<c>>

InputLines ==
    { <<>>,
      Sp \o <<"\t">>,
      TITLE_LINE,
      TITLE_LINE \o Colon \o Sp \o Word("T"),
      TITLE_LINE \o Colon \o Sp \o Sp \o Word("U") \o Sp,
      Hash \o Sp \o Word("M") \o Sp \o BOOK_SUMMARY,
      Hash \o Sp \o Word("A"),
      Hash \o Word("D"),
      Hash \o Hash \o Sp \o Word("B"),
      Hash \o Hash \o Hash \o Sp \o Word("C"),
      Star \o Sp \o Word("x"),
      Dash \o Word("y"),
      Star \o Star \o Word("b") \o Star \o Star,
      Star \o Sp \o Star \o Star \o Word("k") \o Star \o Star \o Sp \o Word("v"),
      Gt \o Sp \o Word("q"),
      Gt \o Sp \o DQ \o Word("r") \o DQ,
      Gt \o Sp \o DQ,
      Word("a"),
      Sp \o Word("b") \o Sp,
      Word("c") \o Sp \o Star \o Star \o Word("d") \o Star \o Star }

\* '\n'.join(ls): the text whose lines are ls.
RECURSIVE JoinLines(_)
JoinLines(ls) ==
    IF Len(ls) = 1 THEN ls[1] ELSE ls[1] \o <<NL>> \o JoinLines(Tail(ls))

InputTexts == {JoinLines(ls) : ls \in UNION {[1..n -> InputLines] : n \in 1..MaxLines}}

Dates == {[year |-> 2026, month |-> 11, day |-> 3]}

\* ------------------------------------------------------------ process_content

Init ==
    /\ text \in InputTexts
    /\ now \in Dates
    /\ pc = "start"
    /\ lines = <<>>
    /\ i = 1
    /\ story = <<>>
    /\ current_paragraph = <<>>
    /\ in_bullet_list = FALSE
    /\ bold = Idle
    /\ instance = Idle
    /\ calls = Idle
    /\ frames = Idle
    /\ batch = Idle

\* Lines 174-189: the preamble and the loop's initial state.
Start ==
    /\ pc = "start"
    /\ story' = Preamble(text, now)
    /\ lines' = SplitLines(text)
    /\ in_bullet_list' = FALSE
    /\ current_paragraph' = <<>>
    /\ i' = 1
    /\ pc' = "loop"
    /\ UNCHANGED <<text, now, others>>

\* The loop is at a line whose stripped form takes branch c.
AtLine(c) == pc = "loop" /\ i <= Len(lines) /\ Classify(Strip(lines[i])) = c

Line == Strip(lines[i])

NextLine_Stay == i' = i /\ UNCHANGED <<text, now, pc, lines, others>>

\* The for loop moves on to the next line.
NextLine == i' = i + 1 /\ UNCHANGED <<text, now, pc, lines, others>>

BlankLine_KeepFlag ==
    /\ AtLine("blank")
    /\ story' = story \o BlankBlocks(current_paragraph)
    /\ current_paragraph' = <<>>
    /\ UNCHANGED in_bullet_list
    /\ NextLine

BlankLine ==
    /\ AtLine("blank")
    /\ story' = story \o BlankBlocks(current_paragraph)
    /\ current_paragraph' = <<>>
    /\ in_bullet_list' = FALSE
    /\ NextLine

SkipTitleLine_Flush ==
    /\ AtLine("skip")
    /\ story' = story \o Flush(current_paragraph)
    /\ current_paragraph' = <<>>
    /\ in_bullet_list' = FALSE
    /\ NextLine

SkipTitleLine ==
    /\ AtLine("skip")
    /\ UNCHANGED <<story, current_paragraph, in_bullet_list>>
    /\ NextLine

Heading3 ==
    /\ AtLine("h3")
    /\ story' = story \o Flush(current_paragraph) \o <<Heading3Block(Line)>>
    /\ current_paragraph' = <<>>
    /\ in_bullet_list' = FALSE
    /\ NextLine

Heading2_BeforeFlush ==
    /\ AtLine("h2")
    /\ story' = story \o <<Heading2Block(Line)>> \o Flush(current_paragraph)
    /\ current_paragraph' = <<>>
    /\ in_bullet_list' = FALSE
    /\ NextLine

Heading2 ==
    /\ AtLine("h2")
    /\ story' = story \o Flush(current_paragraph) \o <<Heading2Block(Line)>>
    /\ current_paragraph' = <<>>
    /\ in_bullet_list' = FALSE
    /\ NextLine

Heading1 ==
    /\ AtLine("h1")
    /\ story' = story \o Flush(current_paragraph) \o <<Heading1Block(Line)>>
    /\ current_paragraph' = <<>>
    /\ in_bullet_list' = FALSE
    /\ NextLine

BulletLine ==
    /\ AtLine("bullet")
    /\ story' = story \o Flush(current_paragraph) \o <<BulletBlock(Line)>>
    /\ current_paragraph' = <<>>
    /\ in_bullet_list' = TRUE
    /\ NextLine

QuoteLine ==
    /\ AtLine("quote")
    /\ story' = story \o Flush(current_paragraph) \o <<QuoteBlock(Line)>>
    /\ current_paragraph' = <<>>
    /\ in_bullet_list' = FALSE
    /\ NextLine

ListSpacer_Always(flag) == <<Spacer(PARAGRAPH_SPACE)>>

\* The Spacer that follows a bullet list.
ListSpacer(flag) == IF flag THEN <<Spacer(PARAGRAPH_SPACE)>> ELSE <<>>

RegularText_KeepFlag ==
    /\ AtLine("text")
    /\ story' = story \o ListSpacer(in_bullet_list)
    /\ UNCHANGED in_bullet_list
    /\ current_paragraph' = Append(current_paragraph, process_bold_text(Line))
    /\ NextLine

RegularText ==
    /\ AtLine("text")
    /\ story' = story \o ListSpacer(in_bullet_list)
    /\ in_bullet_list' = FALSE
    /\ current_paragraph' = Append(current_paragraph, process_bold_text(Line))
    /\ NextLine

Finish_NoFlush ==
    /\ pc = "loop"
    /\ i > Len(lines)
    /\ pc' = "done"
    /\ UNCHANGED <<text, now, lines, i, story, current_paragraph, in_bullet_list, others>>

\* Lines 277-282: the last paragraph (the list is not cleared) and the return.
Finish ==
    /\ pc = "loop"
    /\ i > Len(lines)
    /\ story' = story \o Flush(current_paragraph)
    /\ pc' = "done"
    /\ UNCHANGED <<text, now, lines, i, current_paragraph, in_bullet_list, others>>

Next ==
    \/ Start
    \/ BlankLine
    \/ SkipTitleLine
    \/ Heading3
    \/ Heading2
    \/ Heading1
    \/ BulletLine
    \/ QuoteLine
    \/ RegularText
    \/ Finish

Spec == Init /\ [][Next]_vars

\* No call of process_content is running.
ParseIdle ==
    /\ text = <<>>
    /\ now = Idle
    /\ pc = "idle"
    /\ lines = <<>>
    /\ i = 0
    /\ story = <<>>
    /\ current_paragraph = <<>>
    /\ in_bullet_list = FALSE

\* --------------------------------------------- _process_bold_text, on its own

\* Longest argument of _process_bold_text.
MaxBoldLen == 6

BoldAlphabet == {"*", "a"}

BoldInputs == UNION {[1..n -> BoldAlphabet] : n \in 0..MaxBoldLen}

BoldInit ==
    /\ ParseIdle
    /\ bold \in {[pc |-> "call", text |-> s, result |-> <<>>] : s \in BoldInputs}
    /\ instance = Idle
    /\ calls = Idle
    /\ frames = Idle
    /\ batch = Idle

\* Lines 284-288: the call returns the substituted text.
BoldCall ==
    /\ bold.pc = "call"
    /\ bold' = [bold EXCEPT !.pc = "returned", !.result = process_bold_text(bold.text)]
    /\ UNCHANGED <<parse, instance, calls, frames, batch>>

BoldNext == BoldCall

BoldSpec == BoldInit /\ [][BoldNext]_vars

\* ------------------------------- process_content, several calls on one parser

\* The blocks the loop body appends for a stripped line, given the buffer and
\* the flag.
StepEmit(line, cp, flag) ==
    LET c == Classify(line)
    IN  IF c = "blank" THEN BlankBlocks(cp)
        ELSE IF c = "skip" THEN <<>>
        ELSE IF c = "h3" THEN Flush(cp) \o <<Heading3Block(line)>>
        ELSE IF c = "h2" THEN Flush(cp) \o <<Heading2Block(line)>>
        ELSE IF c = "h1" THEN Flush(cp) \o <<Heading1Block(line)>>
        ELSE IF c = "bullet" THEN Flush(cp) \o <<BulletBlock(line)>>
        ELSE IF c = "quote" THEN Flush(cp) \o <<QuoteBlock(line)>>
        ELSE ListSpacer(flag)

\* current_paragraph after the loop body.
StepBuffer(line, cp) ==
    LET c == Classify(line)
    IN  IF c = "text" THEN Append(cp, process_bold_text(line))
        ELSE IF c = "skip" THEN cp
        ELSE <<>>

\* in_bullet_list after the loop body.
StepFlag(line, flag) ==
    LET c == Classify(line)
    IN  IF c = "bullet" THEN TRUE
        ELSE IF c = "skip" THEN flag
        ELSE FALSE

\* The loop from line k of ls on, and the return value.
RECURSIVE LoopFrom(_, _, _, _, _)
LoopFrom(ls, k, st, cp, flag) ==
    IF k > Len(ls) THEN st \o Flush(cp)
    ELSE LET line == Strip(ls[k])
         IN  LoopFrom(ls, k + 1, st \o StepEmit(line, cp, flag),
                      StepBuffer(line, cp), StepFlag(line, flag))

\* What process_content(t) returns at date d when nothing else runs.
process_content(t, d) == LoopFrom(SplitLines(t), 1, Preamble(t, d), <<>>, FALSE)

\* The calls in progress on the one parser.
Calls == {"a", "b"}

\* Most lines of a text given to such a call.
MaxSharedLines == 2

SharedLines ==
    { <<>>,
      Word("a"),
      Dash \o Word("y"),
      Hash \o Hash \o Sp \o Word("B") }

SharedTexts ==
    {JoinLines(ls) : ls \in UNION {[1..n -> SharedLines] : n \in 1..MaxSharedLines}}

\* The locals of a call that has not reached line 174.
NoFrame ==
    [lines |-> <<>>, i |-> 0, story |-> <<>>, current_paragraph |-> <<>>,
     in_bullet_list |-> FALSE]

FrameOf_Instance(c) == "a"

\* story, lines, in_bullet_list and current_paragraph are locals of the call
\* (lines 174, 187-189): each call has a frame of its own.
FrameOf(c) == c

\* __init__ (lines 39-41): the attributes of the parser.
NewParser == [styles |-> "styles", story |-> <<>>]

SharedInit ==
    /\ ParseIdle
    /\ bold = Idle
    /\ batch = Idle
    /\ instance = NewParser
    /\ calls \in [Calls -> {[pc |-> "start", text |-> t, date |-> d, result |-> <<>>] :
                              t \in SharedTexts, d \in Dates}]
    /\ frames = [c \in Calls |-> NoFrame]

\* Lines 174-189 of call c.
CallStart(c) ==
    /\ calls[c].pc = "start"
    /\ frames' = [frames EXCEPT ![FrameOf(c)] =
                     [lines |-> SplitLines(calls[c].text), i |-> 1,
                      story |-> Preamble(calls[c].text, calls[c].date),
                      current_paragraph |-> <<>>, in_bullet_list |-> FALSE]]
    /\ calls' = [calls EXCEPT ![c].pc = "loop"]
    /\ UNCHANGED <<parse, bold, batch, instance>>

\* One pass of the loop body (lines 191-275) of call c.
CallLine(c) ==
    LET f == frames[FrameOf(c)]
    IN  /\ calls[c].pc = "loop"
        /\ f.i <= Len(f.lines)
        /\ LET line == Strip(f.lines[f.i])
           IN  frames' = [frames EXCEPT ![FrameOf(c)] =
                            [f EXCEPT !.i = f.i + 1,
                                      !.story = f.story \o StepEmit(line, f.current_paragraph,
                                                                    f.in_bullet_list),
                                      !.current_paragraph = StepBuffer(line, f.current_paragraph),
                                      !.in_bullet_list = StepFlag(line, f.in_bullet_list)]]
        /\ UNCHANGED <<parse, bold, batch, instance, calls>>

\* Lines 277-282 of call c.
CallReturn(c) ==
    LET f == frames[FrameOf(c)]
    IN  /\ calls[c].pc = "loop"
        /\ f.i > Len(f.lines)
        /\ calls' = [calls EXCEPT ![c].pc = "done",
                                  ![c].result = f.story \o Flush(f.current_paragraph)]
        /\ UNCHANGED <<parse, bold, batch, instance, frames>>

SharedNext == \E c \in Calls : CallStart(c) \/ CallLine(c) \/ CallReturn(c)

SharedSpec == SharedInit /\ [][SharedNext]_vars

\* ------------------------------------------------ process_folder, create_pdf

\* Most files the glob of line 341 finds.
MaxFiles == 3

\* What happens to a file inside create_pdf: "missing" raises
\* FileNotFoundError at open (line 294), "unreadable" any other exception at
\* lines 294-295, "raises" an exception at lines 304-314 (outside both try
\* blocks), "build_fails" an exception in doc.build (line 318), "ok" none.
Natures == {"ok", "missing", "unreadable", "raises", "build_fails"}

\* A line printed about the f-th discovered file.
Msg(m, f) == [msg |-> m, file |-> f]

\* A line printed about the folder.
Note(m) == [msg |-> m, file |-> 0]

\* The lines create_pdf prints (297, 300, 319, 321).
CreatePdfPrints(n, f) ==
    IF n = "missing" THEN <<Msg("ErrorNotFound", f)>>
    ELSE IF n = "unreadable" THEN <<Msg("ErrorReading", f)>>
    ELSE IF n = "raises" THEN <<>>
    ELSE IF n = "build_fails" THEN <<Msg("ErrorCreatingPdf", f)>>
    ELSE <<Msg("PdfCreated", f)>>

\* create_pdf raises: the read errors and the build errors are caught inside
\* it (lines 296-301, 320-321), an exception of lines 304-314 is not.
Escapes(n) == n = "raises"

\* doc.build returned: the output file is written.
Built(n) == n = "ok"

\* The line process_folder prints after the call (362) or in its except (364).
Report(n, f) ==
    IF Escapes(n) THEN <<Msg("ErrorProcessing", f)>> ELSE <<Msg("Created", f)>>

AfterFile_Propagate(n) == IF Escapes(n) THEN "returned" ELSE "loop"

\* Where process_folder goes after a file: the try of lines 359-364 catches
\* every Exception, so the for loop goes on to the next file.
AfterFile(n) == "loop"

FileLists == UNION {[1..n -> Natures] : n \in 0..MaxFiles}

BatchInit ==
    /\ ParseIdle
    /\ bold = Idle
    /\ calls = Idle
    /\ frames = Idle
    /\ instance = Idle
    /\ batch \in {[pc |-> "check", exists |-> e, files |-> fs, k |-> 0,
                    attempted |-> <<>>, log |-> <<>>, outputs |-> {}] :
                      e \in BOOLEAN, fs \in FileLists}
    /\ ~batch.exists => batch.files = <<>>

\* Lines 327-338.
CheckFolder ==
    /\ batch.pc = "check"
    /\ IF batch.exists
         THEN batch' = [batch EXCEPT !.pc = "glob",
                                     !.log = Append(@, Note("OutputReady"))]
         ELSE batch' = [batch EXCEPT !.pc = "returned",
                                     !.log = Append(@, Note("NoInputFolder"))]
    /\ UNCHANGED <<parse, bold, instance, calls, frames>>

\* Lines 341-350.
Discover ==
    /\ batch.pc = "glob"
    /\ IF batch.files = <<>>
         THEN /\ batch' = [batch EXCEPT !.pc = "returned",
                                        !.log = Append(@, Note("NoFiles"))]
              /\ instance' = instance
         ELSE /\ batch' = [batch EXCEPT !.pc = "loop", !.k = 1,
                                        !.log = Append(@, Note("Found"))]
              /\ instance' = NewParser
    /\ UNCHANGED <<parse, bold, calls, frames>>

\* Lines 353-357: the for loop takes the next file.
BeginFile ==
    /\ batch.pc = "loop"
    /\ batch.k <= Len(batch.files)
    /\ batch' = [batch EXCEPT !.pc = "create",
                              !.log = Append(@, Msg("Processing", batch.k))]
    /\ UNCHANGED <<parse, bold, instance, calls, frames>>

\* Lines 359-364: the call of create_pdf (290-321) and the report.
CreatePdf ==
    /\ batch.pc = "create"
    /\ LET n == batch.files[batch.k]
       IN  batch' = [batch EXCEPT
                       !.attempted = Append(@, batch.k),
                       !.log = @ \o CreatePdfPrints(n, batch.k) \o Report(n, batch.k),
                       !.outputs = IF Built(n) THEN @ \cup {batch.k} ELSE @,
                       !.k = @ + 1,
                       !.pc = AfterFile(n)]
    /\ UNCHANGED <<parse, bold, instance, calls, frames>>

\* Line 366, after the last file.
Complete ==
    /\ batch.pc = "loop"
    /\ batch.k > Len(batch.files)
    /\ batch' = [batch EXCEPT !.pc = "returned",
                              !.log = Append(@, Note("Complete"))]
    /\ UNCHANGED <<parse, bold, instance, calls, frames>>

BatchNext == CheckFolder \/ Discover \/ BeginFile \/ CreatePdf \/ Complete

BatchSpec == BatchInit /\ [][BatchNext]_vars

\* process_folder is a sequential program: a statement that can run does.
BatchLive == BatchSpec /\ WF_vars(BatchNext)

\* ----------------------------------------------------------------- properties

\* The blocks a step appends to the story.
Emitted == SubSeq(story', Len(story) + 1, Len(story'))

\* A step only appends to the story.
Appends == Len(story') >= Len(story) /\ SubSeq(story', 1, Len(story)) = story

\* The loop is about to classify a line.
InLoop == pc = "loop" /\ i <= Len(lines)

KindCount(s, k) == Cardinality({j \in 1..Len(s) : s[j].kind = k})

Kinds(s) == [j \in 1..Len(s) |-> s[j].kind]

\* The Paragraph block the pending buffer would be flushed as, if any.
Pending ==
    IF current_paragraph = <<>> THEN <<>>
    ELSE <<[kind |-> "Paragraph", style |-> "Body", text |-> JoinSpace(current_paragraph)]>>

\* C1: the story begins with Title, Spacer, GeneratedDate, Spacer, all four
\* present before the first line is processed, and holds exactly one Title
\* block and exactly one GeneratedDate block at every later point.
C1_Preamble ==
    /\ pc = "start" => story = <<>>
    /\ pc # "start" =>
          /\ Len(story) >= 4
          /\ Kinds(SubSeq(story, 1, 4)) = <<"Title", "Spacer", "GeneratedDate", "Spacer">>
          /\ KindCount(story, "Title") = 1
          /\ KindCount(story, "GeneratedDate") = 1
    /\ (pc = "loop" /\ i = 1) => Len(story) = 4

C1_Witness ==
    /\ pc = "done"
    /\ Len(lines) = 3
    /\ Len(story) = 7
    /\ story[5].kind = "Heading1"
    /\ story[7].kind = "Paragraph"

\* The title the claim C2 describes: the first trimmed line that begins with
\* '# ' and is not the bare '# BOOK SUMMARY' decides; of the form
\* '# BOOK SUMMARY: <rest>' it gives <rest> trimmed, otherwise its trimmed
\* remainder; without such a line the fallback.
RECURSIVE ClaimedTitle(_, _)
ClaimedTitle(ls, k) ==
    IF k > Len(ls) THEN FALLBACK_TITLE
    ELSE LET line == Strip(ls[k])
         IN  IF StartsWith(line, Hash \o Sp) /\ line # TITLE_LINE
             THEN IF StartsWith(line, TITLE_LINE \o Colon \o Sp)
                     /\ Strip(Slice(line, Len(TITLE_LINE) + 1)) # <<>>
                  THEN Strip(Slice(line, Len(TITLE_LINE) + 1))
                  ELSE Strip(Slice(line, 2))
             ELSE ClaimedTitle(ls, k + 1)

\* C2: the Title block carries the title decided by the first primary-heading
\* line that is not the bare '# BOOK SUMMARY' (its <rest> trimmed, or its
\* trimmed remainder), or the fallback title when there is no such line.
C2_TitleRule ==
    pc # "start" => story[1].text = ClaimedTitle(lines, 1)

\* C3 as stated: only the exact line '# BOOK SUMMARY' is skipped, and every
\* other line starting with '#' but not '##' emits one Heading1 block with
\* the trimmed remainder after the marker.
C3_ExactSkip ==
    [][InLoop /\ StartsWith(Line, Hash) /\ ~StartsWith(Line, Hash \o Hash) =>
         /\ Appends
         /\ IF Line = TITLE_LINE
            THEN Emitted = <<>>
            ELSE Emitted = Pending \o
                   <<[kind |-> "Heading1", style |-> "Heading1", text |-> Strip(Slice(Line, 1))]>>
      ]_vars

\* C3 (amended): a line is skipped, emitting no block, exactly when its
\* trimmed form starts with '# BOOK SUMMARY' (the bare literal and any longer
\* line alike); every other line starting with '#' but not '##' emits one
\* Heading1 block with the trimmed remainder after the marker.
C3_PrefixSkip ==
    [][InLoop /\ StartsWith(Line, Hash) /\ ~StartsWith(Line, Hash \o Hash) =>
         /\ Appends
         /\ IF StartsWith(Line, TITLE_LINE)
            THEN Emitted = <<>>
            ELSE Emitted = Pending \o
                   <<[kind |-> "Heading1", style |-> "Heading1", text |-> Strip(Slice(Line, 1))]>>
      ]_vars

C3_Witness ==
    /\ pc = "loop"
    /\ i = 3
    /\ Strip(lines[1]) = TITLE_LINE \o Colon \o Sp \o Word("T")
    /\ Strip(lines[2]) = Hash \o Sp \o Word("M") \o Sp \o BOOK_SUMMARY
    /\ Len(story) = 5
    /\ story[5].kind = "Heading1"
    /\ story[5].text = Word("M") \o Sp \o BOOK_SUMMARY

\* C4: a line starting with '###' emits exactly one Heading3 block with the
\* trimmed remainder after three characters, a line starting with '##' but
\* not '###' exactly one Heading2 block with the trimmed remainder after two;
\* the pending paragraph is emitted first, the buffer and in_bullet_list are
\* cleared.
C4_HeadingLevels ==
    [][InLoop /\ StartsWith(Line, Hash \o Hash) =>
         /\ Appends
         /\ Emitted = Pending \o
               <<IF StartsWith(Line, Hash \o Hash \o Hash)
                 THEN [kind |-> "Heading3", style |-> "Heading3", text |-> Strip(Slice(Line, 3))]
                 ELSE [kind |-> "Heading2", style |-> "Heading2", text |-> Strip(Slice(Line, 2))]>>
         /\ current_paragraph' = <<>>
         /\ in_bullet_list' = FALSE
      ]_vars

C4_Witness ==
    /\ pc = "done"
    /\ Len(lines) = 3
    /\ Classify(Strip(lines[1])) = "text"
    /\ Len(story) = 7
    /\ Kinds(SubSeq(story, 5, 7)) = <<"Paragraph", "Heading3", "Heading2">>
    /\ story[6].text = Word("C")
    /\ story[7].text = Word("B")

\* The branches that end a run of generic lines.
RunEnders == {"blank", "h3", "h2", "h1", "bullet", "quote"}

\* The kind of the block a run-ending line emits for itself.
OwnKind(c) ==
    IF c = "blank" THEN "Spacer"
    ELSE IF c = "h3" THEN "Heading3"
    ELSE IF c = "h2" THEN "Heading2"
    ELSE IF c = "h1" THEN "Heading1"
    ELSE IF c = "bullet" THEN "Bullet"
    ELSE "Quote"

\* The bold-transformed texts of the run of generic lines that ends with line
\* k of ls: it reaches back to the nearest blank, heading, bullet or quote
\* line (a skipped title line neither belongs to the run nor ends it).
RECURSIVE RunBefore(_, _)
RunBefore(ls, k) ==
    IF k = 0 THEN <<>>
    ELSE LET c == Classify(Strip(ls[k]))
         IN  IF c = "text" THEN Append(RunBefore(ls, k - 1), process_bold_text(Strip(ls[k])))
             ELSE IF c = "skip" THEN RunBefore(ls, k - 1)
             ELSE <<>>

\* The fragments of ls joined by single spaces, spelled out.
RECURSIVE SpaceJoined(_, _)
SpaceJoined(ls, k) ==
    IF k > Len(ls) THEN <<>>
    ELSE IF k = Len(ls) THEN ls[k]
    ELSE ls[k] \o <<" ">> \o SpaceJoined(ls, k + 1)

RECURSIVE RunsFrom(_, _, _)
RunsFrom(ls, k, cur) ==
    LET close == IF cur = <<>> THEN <<>> ELSE <<cur>>
    IN  IF k > Len(ls) THEN close
        ELSE LET c == Classify(Strip(ls[k]))
             IN  IF c = "text"
                 THEN RunsFrom(ls, k + 1, Append(cur, process_bold_text(Strip(ls[k]))))
                 ELSE IF c = "skip" THEN RunsFrom(ls, k + 1, cur)
                 ELSE close \o RunsFrom(ls, k + 1, <<>>)

\* The texts of the Paragraph blocks of s, in order.
RECURSIVE ParagraphTexts(_)
ParagraphTexts(s) ==
    IF s = <<>> THEN <<>>
    ELSE (IF Head(s).kind = "Paragraph" THEN <<Head(s).text>> ELSE <<>>)
         \o ParagraphTexts(Tail(s))

C7_AlwaysSpacer ==
    [][InLoop /\ Line = <<>> =>
         /\ Appends
         /\ Len(Emitted) = Len(Pending) + 1
         /\ SubSeq(Emitted, 1, Len(Pending)) = Pending
         /\ Emitted[Len(Emitted)].kind = "Spacer"
         /\ in_bullet_list' = FALSE
      ]_vars

\* C7 (amended): a blank line with a pending paragraph emits that Paragraph
\* block and then exactly one Spacer block; a blank line with nothing pending
\* emits no block; either way the buffer is empty and in_bullet_list is
\* cleared afterwards.
C7_SpacerAfterParagraph ==
    [][InLoop /\ Line = <<>> =>
         /\ Appends
         /\ IF current_paragraph # <<>>
            THEN /\ Len(Emitted) = 2
                 /\ <<Emitted[1]>> = Pending
                 /\ Emitted[2].kind = "Spacer"
            ELSE Emitted = <<>>
         /\ current_paragraph' = <<>>
         /\ in_bullet_list' = FALSE
      ]_vars

C7_Witness ==
    /\ pc = "done"
    /\ Len(lines) = 3
    /\ Classify(Strip(lines[1])) = "text"
    /\ Strip(lines[2]) = <<>>
    /\ Strip(lines[3]) = <<>>
    /\ Kinds(story) = <<"Title", "Spacer", "GeneratedDate", "Spacer", "Paragraph", "Spacer">>

\* C8: for the empty text, and for any text without a non-blank line, the
\* story returned is exactly Title(fallback title), Spacer, GeneratedDate,
\* Spacer.
C8_EmptyDocument ==
    (pc = "done" /\ \A k \in 1..Len(lines) : Strip(lines[k]) = <<>>) =>
      /\ Len(story) = 4
      /\ story[1] = [kind |-> "Title", style |-> "Title", text |-> FALLBACK_TITLE]
      /\ story[2].kind = "Spacer"
      /\ story[3].kind = "GeneratedDate"
      /\ story[4].kind = "Spacer"

C8_Witness ==
    /\ pc = "done"
    /\ text = <<>>
    /\ lines = << <<>> >>
    /\ Len(story) = 4

\* C9: a line starting with '*' or '-', a line starting with '**' included,
\* emits the pending paragraph and then one Bullet block whose text is the
\* bullet prefix followed by the bold transform of the line less its first
\* character, trimmed; the buffer is cleared and in_bullet_list set.
C9_BulletLines ==
    [][InLoop /\ (StartsWith(Line, Star) \/ StartsWith(Line, Dash)) =>
         /\ Appends
         /\ Emitted = Pending \o
               <<[kind |-> "Bullet", style |-> "Bullet",
                  text |-> BULLET_PREFIX \o process_bold_text(Strip(SubSeq(Line, 2, Len(Line))))]>>
         /\ current_paragraph' = <<>>
         /\ in_bullet_list' = TRUE
      ]_vars

C9_Witness ==
    /\ pc = "loop"
    /\ i = 3
    /\ Classify(Strip(lines[1])) = "text"
    /\ lines[2] = Star \o Star \o Word("b") \o Star \o Star
    /\ Kinds(SubSeq(story, 5, Len(story))) = <<"Paragraph", "Bullet">>
    /\ story[6].text = BULLET_PREFIX \o Star \o Word("b") \o Star \o Star
    /\ in_bullet_list

\* The Quote text the claim C10 describes: the remainder loses its outer
\* quotes only when it is wrapped in a pair of them (two distinct characters).
ClaimedQuoteText(r) ==
    IF Len(r) >= 2 /\ r[1] = "\"" /\ r[Len(r)] = "\""
    THEN SubSeq(r, 2, Len(r) - 1)
    ELSE r

\* C10: a line starting with '>' emits a Quote block whose text is the
\* trimmed remainder after the marker, less its outer pair of double quotes
\* when it is wrapped in one and unchanged otherwise (a lone '"' included),
\* wrapped in one pair of double quotes.
C10_QuoteWrap ==
    [][InLoop /\ StartsWith(Line, Gt) =>
         /\ Appends
         /\ Emitted # <<>>
         /\ Emitted[Len(Emitted)].kind = "Quote"
         /\ Emitted[Len(Emitted)].text =
               DQ \o ClaimedQuoteText(Strip(SubSeq(Line, 2, Len(Line)))) \o DQ
      ]_vars

\* The blocks of s that carry the text of content lines.
ContentBlocks(s) ==
    SelectSeq(s, LAMBDA b : b.kind \notin {"Title", "GeneratedDate", "Spacer"})

\* The block a heading, bullet or quote line of branch c emits for itself.
OwnBlock(c, line) ==
    IF c = "h3" THEN Heading3Block(line)
    ELSE IF c = "h2" THEN Heading2Block(line)
    ELSE IF c = "h1" THEN Heading1Block(line)
    ELSE IF c = "bullet" THEN BulletBlock(line)
    ELSE QuoteBlock(line)

\* The content blocks of lines k.. of ls in document order, one per heading,
\* bullet or quote line and one per closed run of generic lines; cur is the
\* run open at line k, and the run still open at the end is left out.
RECURSIVE InOrder(_, _, _)
InOrder(ls, k, cur) ==
    LET close == IF cur = <<>> THEN <<>>
                 ELSE <<[kind |-> "Paragraph", style |-> "Body", text |-> SpaceJoined(cur, 1)]>>
    IN  IF k > Len(ls) THEN <<>>
        ELSE LET line == Strip(ls[k])
                 c == Classify(line)
             IN  IF c = "text"
                 THEN InOrder(ls, k + 1, Append(cur, process_bold_text(line)))
                 ELSE IF c = "skip" THEN InOrder(ls, k + 1, cur)
                 ELSE IF c = "blank" THEN close \o InOrder(ls, k + 1, <<>>)
                 ELSE close \o <<OwnBlock(c, line)>> \o InOrder(ls, k + 1, <<>>)

\* C12: at every point of the parse the content blocks emitted so far are,
\* in document order, the blocks of the lines processed so far (the open run
\* of generic lines, still buffered, comes after them all), and the story
\* returned lists the blocks of all lines in document order.
C12_LineOrder ==
    /\ pc = "loop" =>
          /\ ContentBlocks(story) = InOrder(SubSeq(lines, 1, i - 1), 1, <<>>)
          /\ current_paragraph = RunBefore(lines, i - 1)
    /\ pc = "done" =>
          ContentBlocks(story) = InOrder(lines, 1, <<>>) \o
            (IF RunBefore(lines, Len(lines)) = <<>> THEN <<>>
             ELSE <<[kind |-> "Paragraph", style |-> "Body",
                     text |-> SpaceJoined(RunBefore(lines, Len(lines)), 1)]>>)

C12_Witness ==
    /\ pc = "done"
    /\ Len(lines) = 3
    /\ Classify(Strip(lines[1])) = "text"
    /\ Classify(Strip(lines[2])) = "h2"
    /\ Classify(Strip(lines[3])) = "text"
    /\ Kinds(ContentBlocks(story)) = <<"Paragraph", "Heading2", "Paragraph">>
    /\ story[5].text = process_bold_text(Strip(lines[1]))
    /\ story[7].text = process_bold_text(Strip(lines[3]))

\* A stripped line with none of the structural prefixes.
NoStructuralPrefix(line) ==
    /\ line # <<>>
    /\ line[1] \notin {"#", "*", "-", ">"}

\* The branches of the loop body.
Branches == {"blank", "skip", "h3", "h2", "h1", "bullet", "quote", "text"}

\* Some step of the parse is possible: the start, a branch of the loop body
\* for the line at i, or the return after the last line.
CanStep ==
    \/ pc = "start"
    \/ pc = "loop" /\ i > Len(lines)
    \/ \E c \in Branches : AtLine(c)

RECURSIVE LastNonBlankIsBullet(_, _)
LastNonBlankIsBullet(ls, k) ==
    IF k = 0 THEN FALSE
    ELSE IF Strip(ls[k]) = <<>> THEN LastNonBlankIsBullet(ls, k - 1)
    ELSE StartsWith(Strip(ls[k]), Star) \/ StartsWith(Strip(ls[k]), Dash)

\* Whether the nearest line at or before line k of ls that is not a skipped
\* title line is a bullet.
RECURSIVE LastKeptIsBullet(_, _)
LastKeptIsBullet(ls, k) ==
    IF k = 0 THEN FALSE
    ELSE IF StartsWith(Strip(ls[k]), TITLE_LINE) THEN LastKeptIsBullet(ls, k - 1)
    ELSE StartsWith(Strip(ls[k]), Star) \/ StartsWith(Strip(ls[k]), Dash)

\* C17 as stated: when a line is classified in_bullet_list is true exactly
\* when the nearest non-blank line before it is a bullet, blank lines in
\* between notwithstanding, and a generic line emits a Spacer exactly then.
C17_LastNonBlank ==
    [][InLoop =>
         /\ in_bullet_list = LastNonBlankIsBullet(lines, i - 1)
         /\ NoStructuralPrefix(Line) =>
               (Emitted # <<>> <=> LastNonBlankIsBullet(lines, i - 1))
      ]_vars

\* C17 (amended): when a line is classified in_bullet_list is true exactly
\* when the line before it, skipped title lines aside, is a bullet (a blank
\* line in between clears the flag); a generic line emits one Spacer, and
\* clears the flag, exactly then, and emits nothing otherwise.
C17_LastKept ==
    [][InLoop =>
         /\ in_bullet_list = LastKeptIsBullet(lines, i - 1)
         /\ NoStructuralPrefix(Line) =>
               /\ Appends
               /\ IF LastKeptIsBullet(lines, i - 1)
                  THEN Len(Emitted) = 1 /\ Emitted[1].kind = "Spacer"
                  ELSE Emitted = <<>>
               /\ in_bullet_list' = FALSE
      ]_vars

C17_Witness ==
    /\ pc = "done"
    /\ Len(lines) = 3
    /\ StartsWith(Strip(lines[1]), Dash)
    /\ Strip(lines[2]) = <<>>
    /\ NoStructuralPrefix(Strip(lines[3]))
    /\ Kinds(story) = <<"Title", "Spacer", "GeneratedDate", "Spacer", "Bullet", "Paragraph">>

\* C18: a step at a skipped title line leaves the story, the buffer and
\* in_bullet_list as they are; so generic lines around such a line are
\* buffered for the same paragraph, and a generic line after a bullet and
\* such a line still gets the Spacer that follows a list.
C18_SkipFrame ==
    /\ [][InLoop /\ StartsWith(Line, TITLE_LINE) =>
            UNCHANGED <<story, current_paragraph, in_bullet_list>>]_vars
    /\ [][(pc = "loop" /\ i >= 4 /\ Strip(lines[i - 2]) = TITLE_LINE
              /\ NoStructuralPrefix(Strip(lines[i - 1]))) =>
            /\ NoStructuralPrefix(Strip(lines[i - 3])) =>
                  /\ Len(current_paragraph) >= 2
                  /\ SubSeq(current_paragraph, Len(current_paragraph) - 1,
                            Len(current_paragraph))
                       = << process_bold_text(Strip(lines[i - 3])),
                            process_bold_text(Strip(lines[i - 1])) >>
                  /\ Emitted # <<>> =>
                        Emitted[1] = [kind |-> "Paragraph", style |-> "Body",
                                      text |-> SpaceJoined(current_paragraph, 1)]
            /\ (StartsWith(Strip(lines[i - 3]), Star) \/ StartsWith(Strip(lines[i - 3]), Dash)) =>
                  /\ Kinds(SubSeq(story, Len(story) - 1, Len(story))) = <<"Bullet", "Spacer">>
                  /\ current_paragraph = <<process_bold_text(Strip(lines[i - 1]))>>
         ]_vars

C18_Witness ==
    /\ pc = "done"
    /\ Len(lines) = 3
    /\ NoStructuralPrefix(Strip(lines[1]))
    /\ Strip(lines[2]) = TITLE_LINE
    /\ NoStructuralPrefix(Strip(lines[3]))
    /\ Len(story) = 5
    /\ story[5].kind = "Paragraph"
    /\ story[5].text = process_bold_text(Strip(lines[1])) \o Sp \o process_bold_text(Strip(lines[3]))

\* C19: whenever in_bullet_list is true the paragraph buffer is empty.
C19_FlagImpliesEmptyBuffer ==
    in_bullet_list => current_paragraph = <<>>

C19_Witness ==
    /\ pc = "loop"
    /\ i = 4
    /\ NoStructuralPrefix(Strip(lines[1]))
    /\ StartsWith(Strip(lines[2]), Star)
    /\ Strip(lines[3]) = TITLE_LINE
    /\ in_bullet_list
    /\ current_paragraph = <<>>
    /\ Len(story) = 6

\* C20: no two Spacer blocks are adjacent: the Spacers of the preamble follow
\* the Title and the GeneratedDate block, and every later Spacer follows a
\* Paragraph block or a Bullet block.
C20_SpacerPlacement ==
    \A k \in 1..Len(story) :
        story[k].kind = "Spacer" =>
          /\ k > 1
          /\ story[k - 1].kind # "Spacer"
          /\ k <= 4 => story[k - 1].kind \in {"Title", "GeneratedDate"}
          /\ k > 4 => story[k - 1].kind \in {"Paragraph", "Bullet"}

C20_Witness ==
    /\ pc = "done"
    /\ Kinds(story) = <<"Title", "Spacer", "GeneratedDate", "Spacer",
                         "Bullet", "Spacer", "Paragraph", "Spacer">>

\* The positions j at which a '**' closes a span opened by the '**' at k: the
\* span between them is not empty and holds no '**'.
ClaimedCloses(s, k) ==
    {j \in (k + 3)..Len(s) :
        /\ OccursAt(s, <<"*", "*">>, j)
        /\ \A m \in (k + 2)..(j - 2) : ~OccursAt(s, <<"*", "*">>, m)}

\* The transform the claim C11 describes, from position k on: the leftmost
\* '**' that opens a non-empty span free of '**', with the shortest such span.
RECURSIVE ClaimedBold(_, _)
ClaimedBold(s, k) ==
    IF k > Len(s) THEN <<>>
    ELSE IF OccursAt(s, <<"*", "*">>, k) /\ ClaimedCloses(s, k) # {}
         THEN LET j == CHOOSE c \in ClaimedCloses(s, k) :
                            \A m \in ClaimedCloses(s, k) : c <= m
              IN  <<"<", "b", ">">> \o SubSeq(s, k + 2, j - 1) \o <<"<", "/", "b", ">">>
                  \o ClaimedBold(s, j + 2)
         ELSE <<s[k]>> \o ClaimedBold(s, k + 1)

\* C11: _process_bold_text replaces, left to right, every '**<span>**' with
\* <span> the shortest non-empty run free of '**' by '<b><span></b>' and
\* leaves everything else, the empty pair '****' included, as it is.
C11_BoldNonEmpty ==
    bold.pc = "returned" => bold.result = ClaimedBold(bold.text, 1)

\* C13: whatever the other calls on the same parser have done or are doing,
\* a call of process_content returns what it returns when run alone on a
\* fresh parser, for its text and date; the parser's attributes stay as
\* constructed, and a call's buffer and flag are those of its own lines.
C13_PerCallState ==
    /\ instance = NewParser
    /\ \A c \in Calls :
          /\ calls[c].pc = "done" =>
                calls[c].result = process_content(calls[c].text, calls[c].date)
          /\ calls[c].pc = "loop" =>
                LET ls == SplitLines(calls[c].text)
                    f == frames[c]
                IN  /\ f.lines = ls
                    /\ f.current_paragraph = RunBefore(ls, f.i - 1)
                    /\ f.in_bullet_list = LastKeptIsBullet(ls, f.i - 1)

C13_Witness ==
    /\ calls["a"].pc = "done"
    /\ calls["a"].text = Dash \o Word("y") \o <<NL>> \o Word("a")
    /\ Kinds(calls["a"].result) =
         <<"Title", "Spacer", "GeneratedDate", "Spacer", "Bullet", "Spacer", "Paragraph">>
    /\ calls["b"].pc = "loop"
    /\ calls["b"].text = Word("a") \o <<NL>> \o Hash \o Hash \o Sp \o Word("B")
    /\ frames["b"].i = 2
    /\ frames["b"].current_paragraph = <<Word("a")>>

\* The first m discovered files, in discovery order.
FirstFiles(m) == [j \in 1..m |-> j]

Discovered == batch.pc \in {"loop", "create"} \/ batch.attempted # <<>>

Completed ==
    /\ batch.pc = "returned"
    /\ batch.log # <<>>
    /\ batch.log[Len(batch.log)] = Note("Complete")
    /\ batch.attempted = FirstFiles(Len(batch.files))

\* C14: once files are discovered, create_pdf is called on them one by one
\* in discovery order, each once, whatever happened to the files before
\* (missing, unreadable, an exception out of create_pdf, a failed build);
\* the batch returns only after the completion message, with every file
\* attempted, and it does get there.
C14_BatchCompletes ==
    /\ [](Discovered =>
            /\ batch.pc \in {"loop", "create"} =>
                  batch.attempted = FirstFiles(batch.k - 1)
            /\ batch.pc = "returned" => Completed)
    /\ (batch.pc = "loop") ~> Completed

C14_Witness ==
    /\ Completed
    /\ batch.files = <<"unreadable", "raises", "build_fails">>
    /\ batch.attempted = <<1, 2, 3>>

\* C15: a "Created" line for a file is printed only if its output file was
\* written, and a file whose read or build failed gets the failure line of
\* the driver and no "Created" line.
C15_FaithfulReports ==
    \A f \in 1..Len(batch.attempted) :
        LET has(m) == \E j \in 1..Len(batch.log) : batch.log[j] = Msg(m, f)
        IN  /\ has("Created") => f \in batch.outputs
            /\ batch.files[f] \in {"missing", "unreadable", "build_fails"} =>
                  has("ErrorProcessing") /\ ~has("Created")
====
